---- MODULE Spec2Model ----
(***************************************************************************)
(* Model of optimize_transactions.py: a script that reads net balances,    *)
(* builds a mixed-integer program whose objective is the number of         *)
(* pairwise transactions, solves it and prints the payments.               *)
(*                                                                         *)
(* Participants are the positions 1..N of the rows of data.csv (the dict   *)
(* keeps insertion order, names are distinct).  Amounts are integers in a  *)
(* common unit; the examples of the documentation are scaled to that unit. *)
(* The solver behind prob.solve() is external: it is modelled as returning *)
(* any assignment that satisfies every constraint of prob and minimises    *)
(* the objective, or the status "infeasible" when there is none.           *)
(***************************************************************************)
EXTENDS Integers, Sequences, FiniteSets, TLC

\* ----- bounds of the model -----
\* most rows in data.csv
MaxN == 4
\* most money on either side of the ledger (sum of the positive balances,
\* and sum of the absolute negative balances)
MaxTotal == 3

\* an upper limit standing for the missing (None) bound of a variable; it is
\* larger than every balance, so that a variable could exceed the big-M values
VarMax == MaxTotal + 1

\* PuLP's status codes, as printed by line 78
LpStatusNotSolved == 0
LpStatusOptimal == 1
LpStatusInfeasible == -1

VARIABLES
    pc,                 \* position of the script
    data,               \* rows of data.csv after the header: the balances
    net_transactions,   \* name -> balance
    names,              \* the names, in file order (here 1..N)
    name_combos,        \* ordered pairs of distinct names
    name_combos_u,      \* one pair per unordered pair
    max_payout,
    max_payment,
    prob,               \* the LpProblem: variables, objective, constraints
    lp_file,            \* whether TransactionOptimization.lp was written
    status,             \* prob.status
    varValue,           \* the values the solver left in the variables
    search,             \* the solver's view of prob: the payouts and payments that
                        \* satisfy it without (relaxed) and with (settled) the forcing rows
    output,             \* what was printed
    error               \* the exception that ended the script, if any

vars == <<pc, data, net_transactions, names, name_combos, name_combos_u,
          max_payout, max_payment, prob, lp_file, status, varValue, search,
          output, error>>

\* ----- helpers -----
RECURSIVE SumOver(_, _)
SumOver(f, S) ==
    IF S = {} THEN 0
    ELSE LET x == CHOOSE y \in S : TRUE IN f[x] + SumOver(f, S \ {x})

Range(s) == {s[i] : i \in DOMAIN s}

Max(S) == CHOOSE x \in S : \A y \in S : y <= x
Min(S) == CHOOSE x \in S : \A y \in S : x <= y
Abs(x) == IF x < 0 THEN -x ELSE x

Pos(s) == [i \in DOMAIN s |-> IF s[i] > 0 THEN s[i] ELSE 0]
Neg(s) == [i \in DOMAIN s |-> IF s[i] < 0 THEN -s[i] ELSE 0]

\* the balance tables the model is run on
Inputs ==
    {s \in UNION {[1..n -> (-MaxTotal)..MaxTotal] : n \in 0..MaxN} :
        /\ SumOver(Pos(s), DOMAIN s) <= MaxTotal
        /\ SumOver(Neg(s), DOMAIN s) <= MaxTotal}

NoProblem == [variables |-> {}, objective |-> {}, constraints |-> {}, built |-> FALSE]
NoValue == [payout |-> <<>>, payment |-> <<>>, is_trans |-> <<>>]
NoSearch == [relaxed |-> {}, settled |-> {}, done |-> FALSE]
NoOutput == [status |-> LpStatusNotSolved, objective |-> -1, payments |-> {}, printed |-> FALSE]

Init ==
    /\ pc = "load"
    /\ data \in Inputs
    /\ net_transactions = <<>>
    /\ names = <<>>
    /\ name_combos = {}
    /\ name_combos_u = {}
    /\ max_payout = 0
    /\ max_payment = 0
    /\ prob = NoProblem
    /\ lp_file = FALSE
    /\ status = LpStatusNotSolved
    /\ varValue = NoValue
    /\ search = NoSearch
    /\ output = NoOutput
    /\ error = "none"

\* lines 20-26: read the rows, build the dict and the list of its keys
Load ==
    /\ pc = "load"
    /\ net_transactions' = [n \in DOMAIN data |-> data[n]]
    /\ names' = [i \in DOMAIN data |-> i]
    /\ pc' = "index"
    /\ UNCHANGED <<data, name_combos, name_combos_u, max_payout, max_payment,
                   prob, lp_file, status, varValue, search, output, error>>

\* line 29: [(n1, n2) for n1 in names for n2 in names if n1 != n2]
NameCombos(nms) ==
    {c \in {<<nms[i], nms[j]>> : i, j \in DOMAIN nms} : c[1] # c[2]}

\* variant: the indicators indexed by ordered pair (names instead of names[i+1:])
NameCombosU_Ordered(nms) == NameCombos(nms)

\* line 31: [(n1, n2) for i, n1 in enumerate(names) for n2 in names[i+1:]]
NameCombosU(nms) ==
    {<<nms[ij[1]], nms[ij[2]]>> : ij \in {k \in (DOMAIN nms) \X (DOMAIN nms) : k[1] < k[2]}}

\* lines 29-31
Index ==
    /\ pc = "index"
    /\ name_combos' = NameCombos(names)
    /\ name_combos_u' = NameCombosU(names)
    /\ pc' = "parameters"
    /\ UNCHANGED <<data, net_transactions, names, max_payout, max_payment,
                   prob, lp_file, status, varValue, search, output, error>>

\* variant: min in place of max
MaxPayoutOf_Min(net) == Min(Range(net))

\* lines 34-35; max() and min() of an empty sequence raise ValueError
MaxPayoutOf(net) == Max(Range(net))
MaxPaymentOf(net) == Abs(Min(Range(net)))

Parameters ==
    /\ pc = "parameters"
    /\ IF Len(names) = 0
       THEN /\ pc' = "failed"
            /\ error' = "ValueError"
            /\ UNCHANGED <<max_payout, max_payment>>
       ELSE /\ pc' = "build"
            /\ max_payout' = MaxPayoutOf(net_transactions)
            /\ max_payment' = MaxPaymentOf(net_transactions)
            /\ UNCHANGED error
    /\ UNCHANGED <<data, net_transactions, names, name_combos, name_combos_u,
                   prob, lp_file, status, varValue, search, output>>

\* ----- the pieces of the LpProblem (lines 38-69) -----
\* a variable's key: its family and its index pair
Var(kind, n1, n2) == [kind |-> kind, idx |-> <<n1, n2>>]

\* line 38-40: one Payout and one Payment per ordered pair, one Is_Transaction
\* per pair of name_combos_u
Variables(combos, combos_u) ==
    {Var("Payout", c[1], c[2]) : c \in combos}
        \cup {Var("Payment", c[1], c[2]) : c \in combos}
        \cup {Var("Is_Transaction", c[1], c[2]) : c \in combos_u}

\* A constraint: its family, the name the script gives it (name, at), the
\* variables it reads (po: payout index, pm: payment index, u: indicator index,
\* terms: the indices summed) and its numbers (m: big-M coefficient, rhs).
Constraint(kind, at, po, pm, u, terms, m, rhs) ==
    [kind |-> kind, at |-> at, po |-> po, pm |-> pm, u |-> u,
     terms |-> terms, m |-> m, rhs |-> rhs]

None == <<0, 0>>

\* variant: payout[(n1, n2)] + payment[(n1, n2)] == 0
Net_is_zero_SameKey(n1, n2) ==
    Constraint("Net_is_zero", <<n1, n2>>, <<n1, n2>>, <<n1, n2>>, None, {}, 0, 0)

\* line 51: payout[(n1, n2)] + payment[(n2, n1)] == 0
Net_is_zero(n1, n2) ==
    Constraint("Net_is_zero", <<n1, n2>>, <<n1, n2>>, <<n2, n1>>, None, {}, 0, 0)

\* variant: the coefficient left out, payout[(a, b)] - is_trans[u] <= 0
Is_payout_NoBigM(a, b, u, maxPayout) ==
    Constraint("Is_payout", <<a, b>>, <<a, b>>, None, u, {}, 1, 0)

\* lines 56-57: payout[(a, b)] - max_payout * is_trans[u] <= 0
Is_payout(a, b, u, maxPayout) ==
    Constraint("Is_payout", <<a, b>>, <<a, b>>, None, u, {}, maxPayout, 0)

\* lines 60-61: payment[(a, b)] + max_payment * is_trans[u] >= 0
Is_payment(a, b, u, maxPayment) ==
    Constraint("Is_payment", <<a, b>>, None, <<a, b>>, u, {}, maxPayment, 0)

\* the partners summed over in lines 65-69: n2 in names if n1 != n2
Partners(n1, nms) == {<<n1, n2>> : n2 \in Range(nms) \ {n1}}

\* variant: the payments of a debtor summed to the magnitude of its balance
PaymentRhs_Negated(net, n1) == IF net[n1] >= 0 THEN 0 ELSE -net[n1]

\* lines 64-69: the right-hand sides of the two balance rows of n1
PayoutRhs(net, n1) == IF net[n1] >= 0 THEN net[n1] ELSE 0
PaymentRhs(net, n1) == IF net[n1] >= 0 THEN 0 ELSE net[n1]

\* lines 65 and 68
Payout_(n1, nms, net) ==
    Constraint("Payout_", <<n1, n1>>, None, None, None, Partners(n1, nms), 0, PayoutRhs(net, n1))

\* lines 66 and 69
Payment_(n1, nms, net) ==
    Constraint("Payment_", <<n1, n1>>, None, None, None, Partners(n1, nms), 0, PaymentRhs(net, n1))

\* variant: the Net_is_zero loop run over name_combos_u instead of name_combos
Constraints_HalfCoupled(nms, combos, combos_u, net, maxPayout, maxPayment) ==
    {Net_is_zero(c[1], c[2]) : c \in combos_u}
        \cup {Is_payout(c[1], c[2], c, maxPayout) : c \in combos_u}
        \cup {Is_payout(c[2], c[1], c, maxPayout) : c \in combos_u}
        \cup {Is_payment(c[1], c[2], c, maxPayment) : c \in combos_u}
        \cup {Is_payment(c[2], c[1], c, maxPayment) : c \in combos_u}
        \cup {Payout_(n, nms, net) : n \in Range(nms)}
        \cup {Payment_(n, nms, net) : n \in Range(nms)}

\* variant: only the payout of the listed direction tied to the indicator
\* (line 56 kept; lines 57, 60 and 61 left out)
Constraints_OneDirection(nms, combos, combos_u, net, maxPayout, maxPayment) ==
    {Net_is_zero(c[1], c[2]) : c \in combos}
        \cup {Is_payout(c[1], c[2], c, maxPayout) : c \in combos_u}
        \cup {Payout_(n, nms, net) : n \in Range(nms)}
        \cup {Payment_(n, nms, net) : n \in Range(nms)}

\* lines 49-69: every constraint added to prob
Constraints(nms, combos, combos_u, net, maxPayout, maxPayment) ==
    {Net_is_zero(c[1], c[2]) : c \in combos}
        \cup {Is_payout(c[1], c[2], c, maxPayout) : c \in combos_u}
        \cup {Is_payout(c[2], c[1], c, maxPayout) : c \in combos_u}
        \cup {Is_payment(c[1], c[2], c, maxPayment) : c \in combos_u}
        \cup {Is_payment(c[2], c[1], c, maxPayment) : c \in combos_u}
        \cup {Payout_(n, nms, net) : n \in Range(nms)}
        \cup {Payment_(n, nms, net) : n \in Range(nms)}

\* variant: the first pair left out of the sum (name_combos_u[1:])
ObjectiveTerms_SkipFirst(combos_u) ==
    combos_u \ {c \in combos_u : \A d \in combos_u : c[1] < d[1] \/ (c[1] = d[1] /\ c[2] <= d[2])}

\* line 46: lpSum([is_trans[nc] for nc in name_combos_u]); the indices summed
ObjectiveTerms(combos_u) == combos_u

\* lines 38-69: variables, objective and constraints
Build ==
    /\ pc = "build"
    /\ prob' = [variables |-> Variables(name_combos, name_combos_u),
                objective |-> ObjectiveTerms(name_combos_u),
                constraints |-> Constraints(names, name_combos, name_combos_u,
                                            net_transactions, max_payout, max_payment),
                built |-> TRUE]
    /\ pc' = "write"
    /\ UNCHANGED <<data, net_transactions, names, name_combos, name_combos_u,
                   max_payout, max_payment, lp_file, status, varValue, search, output, error>>

\* line 72
WriteLP ==
    /\ pc = "write"
    /\ lp_file' = TRUE
    /\ pc' = "solve"
    /\ UNCHANGED <<data, net_transactions, names, name_combos, name_combos_u,
                   max_payout, max_payment, prob, status, varValue, search, output, error>>

\* ----- the solver (line 75) -----
\* An assignment gives every variable a value: payout and payment by ordered
\* pair, is_trans by the pairs of name_combos_u.
Idx(p, kind) == {v.idx : v \in {w \in p.variables : w.kind = kind}}

Of(p, kind) == {c \in p.constraints : c.kind = kind}

\* whether assignment a satisfies constraint c
Holds(c, a) ==
    CASE c.kind = "Net_is_zero" -> a.payout[c.po] + a.payment[c.pm] = 0
      [] c.kind = "Is_payout"   -> a.payout[c.po] - c.m * a.is_trans[c.u] <= 0
      [] c.kind = "Is_payment"  -> a.payment[c.pm] + c.m * a.is_trans[c.u] >= 0
      [] c.kind = "Payout_"     -> SumOver(a.payout, c.terms) = c.rhs
      [] c.kind = "Payment_"    -> SumOver(a.payment, c.terms) = c.rhs

\* lines 38-40: the bounds and the integrality of the variables
InBounds(p, a) ==
    /\ \A i \in Idx(p, "Payout") : a.payout[i] >= 0
    /\ \A i \in Idx(p, "Payment") : a.payment[i] <= 0
    /\ \A i \in Idx(p, "Is_Transaction") : a.is_trans[i] \in 0..1

Satisfies(p, a) == InBounds(p, a) /\ \A c \in p.constraints : Holds(c, a)

\* line 46: the objective value of an assignment
Objective(p, a) == SumOver(a.is_trans, p.objective)

\* The assignments within VarMax are enumerated constraint by constraint, which
\* gives the same set as filtering every function over the variables: the
\* payouts row by row from the Payout_ rows, each payment from the Net_is_zero
\* row that fixes it, then every 0/1 value of the indicators.
\* the functions T -> 0..VarMax whose values sum to total
RECURSIVE RowsSummingTo(_, _)
RowsSummingTo(T, total) ==
    IF T = {} THEN (IF total = 0 THEN {<<>>} ELSE {})
    ELSE LET x == CHOOSE y \in T : TRUE
         IN UNION {{(x :> v) @@ r : r \in RowsSummingTo(T \ {x}, total - v)} :
                        v \in {w \in 0..VarMax : w <= total}}

PayoutRows(c) == RowsSummingTo(c.terms, c.rhs)

RECURSIVE Combine(_)
Combine(C) ==
    IF C = {} THEN {<<>>}
    ELSE LET c == CHOOSE d \in C : TRUE
         IN {f @@ r : f \in Combine(C \ {c}), r \in PayoutRows(c)}

PayoutCandidates(p) ==
    LET covered == UNION {c.terms : c \in Of(p, "Payout_")}
        free == Idx(p, "Payout") \ covered
    IN {f @@ g : f \in Combine(Of(p, "Payout_")), g \in [free -> 0..VarMax]}

\* for each payment index that a Net_is_zero row fixes, the payout index it
\* is fixed by
Ties(p) ==
    LET rows == Of(p, "Net_is_zero")
    IN [i \in {c.pm : c \in rows} |-> (CHOOSE c \in rows : c.pm = i).po]

PaymentCandidates(p, ties, po) ==
    {[i \in DOMAIN ties |-> -po[ties[i]]] @@ g :
        g \in [Idx(p, "Payment") \ DOMAIN ties -> (-VarMax)..0]}

\* the constraints that read no indicator: the balance rows and the coupling
BalanceRows(p) == Of(p, "Payout_") \cup Of(p, "Payment_")
Coupling(p) == Of(p, "Net_is_zero")

\* payouts and payments within their bounds that satisfy the Net_is_zero,
\* Payout_ and Payment_ rows (the forcing rows left aside)
RelaxedWith(p, balance, coupling, P, Q, ties) ==
    {a \in UNION {{[payout |-> po, payment |-> pm] : pm \in PaymentCandidates(p, ties, po)} :
                    po \in PayoutCandidates(p)} :
        /\ \A c \in balance : Holds(c, a)
        /\ \A c \in coupling : Holds(c, a)
        /\ \A i \in P : a.payout[i] >= 0
        /\ \A i \in Q : a.payment[i] <= 0}

Relaxed(p) ==
    UNION {RelaxedWith(p, balance, coupling, P, Q, ties) :
            balance \in {BalanceRows(p)}, coupling \in {Coupling(p)},
            P \in {Idx(p, "Payout")}, Q \in {Idx(p, "Payment")}, ties \in {Ties(p)}}

\* the constraints that read an indicator
Forcing(p) == Of(p, "Is_payout") \cup Of(p, "Is_payment")

\* the values of indicator u under which the forcing rows that read u hold
\* for the payouts and payments r
Admissible(forcing, r, u) ==
    {b \in 0..1 :
        \A c \in {d \in forcing : d.u = u} :
            Holds(c, [payout |-> r.payout, payment |-> r.payment, is_trans |-> (u :> b)])}

\* every assignment that satisfies all of prob: a member r of R = Relaxed(p)
\* with 0/1 indicators under which the forcing rows hold; a forcing row reads
\* one indicator, so the indicators are admitted one by one
FeasibleWith(forcing, U, R) ==
    UNION {{[payout |-> ra[1].payout, payment |-> ra[1].payment, is_trans |-> it] :
                it \in {f \in [U -> 0..1] : \A u \in U : f[u] \in ra[2][u]}} :
            ra \in {<<r, [u \in U |-> Admissible(forcing, r, u)]>> : r \in R}}

Feasible(p, R) ==
    UNION {FeasibleWith(forcing, U, R) :
            forcing \in {Forcing(p)}, U \in {Idx(p, "Is_Transaction")}}

\* the assignments of least objective value among F
Optimal(p, F) ==
    UNION {{a \in F : Objective(p, a) = best} :
            best \in {Min({Objective(p, a) : a \in F})}}

\* line 75: the solver leaves an optimal assignment in the variables and sets
\* the status, or reports that there is none (the variables' values are then
\* not meaningful and are modelled as absent)
Solve ==
    /\ pc = "solve"
    /\ \E R \in {Relaxed(prob)} : \E F \in {Feasible(prob, R)} :
          /\ search' = [relaxed |-> R,
                        settled |-> {[payout |-> a.payout, payment |-> a.payment] : a \in F},
                        done |-> TRUE]
          /\ IF F = {}
             THEN /\ status' = LpStatusInfeasible
                  /\ varValue' = NoValue
             ELSE /\ status' = LpStatusOptimal
                  /\ varValue' \in Optimal(prob, F)
    /\ pc' = "print"
    /\ UNCHANGED <<data, net_transactions, names, name_combos, name_combos_u,
                   max_payout, max_payment, prob, lp_file, output, error>>

\* line 81: value(prob.objective)
ObjectiveValue == IF status = LpStatusOptimal THEN Objective(prob, varValue) ELSE -1

\* variant: the Payout variables printed instead of the Payment variables
PaymentLines_Payout ==
    IF status = LpStatusOptimal
    THEN {<<i[1], i[2], varValue.payout[i]>> :
            i \in {j \in Idx(prob, "Payout") : varValue.payout[j] # 0}}
    ELSE {}

\* lines 85-87: every Payment variable whose value is not 0, as
\* <<n1, n2, value>> for Payment_(n1, n2) = value
PaymentLines ==
    IF status = LpStatusOptimal
    THEN {<<i[1], i[2], varValue.payment[i]>> :
            i \in {j \in Idx(prob, "Payment") : varValue.payment[j] # 0}}
    ELSE {}

\* lines 78-87
PrintResults ==
    /\ pc = "print"
    /\ output' = [status |-> status, objective |-> ObjectiveValue,
                  payments |-> PaymentLines, printed |-> TRUE]
    /\ pc' = "done"
    /\ UNCHANGED <<data, net_transactions, names, name_combos, name_combos_u,
                   max_payout, max_payment, prob, lp_file, status, varValue, search, error>>

Next == Load \/ Index \/ Parameters \/ Build \/ WriteLP \/ Solve \/ PrintResults

Spec == Init /\ [][Next]_vars

\* ----- vocabulary of the properties -----
Total(s) == SumOver(s, DOMAIN s)
Positive(s) == {n \in DOMAIN s : s[n] > 0}
Negative(s) == {n \in DOMAIN s : s[n] < 0}
AllZero(s) == \A n \in DOMAIN s : s[n] = 0

\* a balance mapping the documentation allows: at least 2 rows, sum 0
ValidInput == Len(data) >= 2 /\ Total(data) = 0

\* ----- reference: settlements by arbitrary transfers -----
\* A settlement gives every unordered pair <<n, m>>, n < m, a signed amount
\* g: g > 0 is a transfer of g from n to m, g < 0 a transfer of -g from m to n,
\* 0 no transfer; every participant receives, less what it pays, exactly its
\* required net.  No amount above the money in the system is needed: a
\* settlement with the fewest transfers has no cycle, and in a forest every
\* amount is the imbalance of a subtree.
AllPairs(net) == {k \in (DOMAIN net) \X (DOMAIN net) : k[1] < k[2]}

\* the functions T -> -MaxTotal..MaxTotal whose values sum to total
RECURSIVE SignedRows(_, _)
SignedRows(T, total) ==
    IF T = {} THEN (IF total = 0 THEN {<<>>} ELSE {})
    ELSE LET x == CHOOSE y \in T : TRUE
             rest == (Cardinality(T) - 1) * MaxTotal
         IN UNION {{(x :> v) @@ r : r \in SignedRows(T \ {x}, total - v)} :
                        v \in {w \in (-MaxTotal)..MaxTotal : Abs(total - w) <= rest}}

\* the settlements that move money only along the pairs of E, enumerated
\* participant by participant: the amounts n sends to the later participants
\* sum to what the earlier ones sent to n, less the required net of n
RECURSIVE SettlementsFrom(_, _, _, _)
SettlementsFrom(n, net, E, G) ==
    IF n > Len(net) THEN G
    ELSE SettlementsFrom(n + 1, net, E,
            UNION {{g @@ r : r \in SignedRows({e \in E : e[1] = n},
                                              SumOver(g, {e \in E : e[2] = n}) - net[n])} :
                        g \in G})

SettlementsOn(net, E) == SettlementsFrom(1, net, E, {<<>>})

\* every settlement of net
Settlements(net) == SettlementsOn(net, AllPairs(net))

NumTransfers(g) == Cardinality({e \in DOMAIN g : g[e] # 0})

\* the least number of pairs along which net can be settled, from k upwards
RECURSIVE LeastSupport(_, _)
LeastSupport(net, k) ==
    IF k > Cardinality(AllPairs(net)) THEN -1
    ELSE IF \E E \in {F \in SUBSET AllPairs(net) : Cardinality(F) = k} :
                SettlementsOn(net, E) # {}
         THEN k
         ELSE LeastSupport(net, k + 1)

\* the least number of transfers of any settlement of net
MinTransfers(net) == LeastSupport(net, 0)

\* ----- C1 -----
\* C1: for a valid input the objective value the script prints is the least
\* number of transfers of any settlement of the balances.
C1_OptimumIsMinimum ==
    (pc = "done" /\ ValidInput) =>
        /\ output.status = LpStatusOptimal
        /\ output.objective = MinTransfers(data)

\* two creditors and two debtors: 2 transfers, fewer than N-1
C1_Witness ==
    /\ pc = "done"
    /\ data = <<1, 1, -1, -1>>
    /\ output.objective = 2
    /\ MinTransfers(data) = 2

\* ----- C2 -----
\* C2: for a valid input some assignment satisfies every constraint of prob.
C2_Feasible ==
    (pc = "print" /\ ValidInput) =>
        /\ search.settled # {}
        /\ status = LpStatusOptimal

C2_Witness ==
    /\ pc = "print"
    /\ ValidInput
    /\ Len(data) = 4
    /\ Cardinality(Positive(data)) = 2
    /\ search.settled # {}

\* ----- C3 -----
\* what n receives less what n pays, the amount m sends to n being payout(n, m)
Realized(a, n) ==
    SumOver(a.payout, {i \in DOMAIN a.payout : i[1] = n})
        - SumOver(a.payout, {i \in DOMAIN a.payout : i[2] = n})

\* C3: in every assignment that satisfies the constraints, payout(n, m) is
\* -payment(m, n) and every participant's realized net is its required net.
C3_RealizedNet ==
    pc = "print" =>
        \A a \in search.settled :
            /\ \A i \in name_combos : a.payout[i] = -a.payment[<<i[2], i[1]>>]
            /\ \A n \in Range(names) : Realized(a, n) = net_transactions[n]

C3_Witness ==
    /\ pc = "print"
    /\ Len(data) = 4
    /\ \E a \in search.settled : \E i, j \in name_combos :
            i # j /\ a.payout[i] > 0 /\ a.payout[j] > 0

\* ----- C4 -----
\* C4: for a valid input of N rows the printed objective value is at most N-1,
\* it is 0 exactly when every balance is 0, and then no payment is printed.
C4_AtMostNMinusOne ==
    (pc = "done" /\ ValidInput) =>
        /\ output.status = LpStatusOptimal
        /\ output.objective <= Len(data) - 1
        /\ (output.objective = 0 <=> AllZero(data))
        /\ (AllZero(data) => output.payments = {})

C4_Witness ==
    /\ pc = "done"
    /\ data = <<0, 0, 0>>
    /\ output.objective = 0
    /\ output.payments = {}

\* ----- C5 -----
\* whether the pair moves money in assignment a, in either direction
Moves(a, n1, n2) ==
    \/ a.payout[<<n1, n2>>] # 0
    \/ a.payout[<<n2, n1>>] # 0
    \/ a.payment[<<n1, n2>>] # 0
    \/ a.payment[<<n2, n1>>] # 0

\* the unordered pairs that move money
MovingPairs(a) == {{c[1], c[2]} : c \in {d \in name_combos : Moves(a, d[1], d[2])}}

\* C5: in an optimal assignment the indicator of a pair is 1 exactly when the
\* pair moves money, and the objective value is the number of such pairs.
C5_IndicatorIffTransfer ==
    (pc = "print" /\ status = LpStatusOptimal) =>
        /\ \A u \in name_combos_u :
                varValue.is_trans[u] = 1 <=> Moves(varValue, u[1], u[2])
        /\ ObjectiveValue = Cardinality(MovingPairs(varValue))

\* a pair that moves money and a pair that does not
C5_Witness ==
    /\ pc = "print"
    /\ status = LpStatusOptimal
    /\ \E u, w \in name_combos_u :
            /\ varValue.is_trans[u] = 1 /\ Moves(varValue, u[1], u[2])
            /\ varValue.is_trans[w] = 0 /\ ~Moves(varValue, w[1], w[2])

\* ----- C6 -----
\* one creditor, every other participant a debtor
OneCreditor(s) ==
    /\ Len(s) >= 2
    /\ Total(s) = 0
    /\ Cardinality(Positive(s)) = 1
    /\ Cardinality(Negative(s)) = Len(s) - 1

\* C6: with one creditor c and only debtors besides, the objective value is
\* the number of debtors and every debtor d pays -net(d) to c and nothing else
\* moves.
C6_SingleCreditor ==
    (pc = "done" /\ OneCreditor(data)) =>
        LET c == CHOOSE n \in Positive(data) : TRUE
        IN /\ output.status = LpStatusOptimal
           /\ output.objective = Cardinality(Negative(data))
           /\ \A i \in name_combos :
                /\ varValue.payout[i] = (IF i[1] = c THEN -data[i[2]] ELSE 0)
                /\ varValue.payment[i] = (IF i[2] = c THEN data[i[1]] ELSE 0)

\* Example 1 in units of 500: A 1000, B -500, C -500
C6_Witness ==
    /\ pc = "done"
    /\ data = <<2, -1, -1>>
    /\ output.objective = 2
    /\ output.payments = {<<2, 1, -1>>, <<3, 1, -1>>}

\* ----- C7 -----
\* the printed line Payment_(n1, n2) = v, v < 0, read as <<payer, payee, amount>>
Transfers(lines) == {<<l[1], l[2], -l[3]>> : l \in lines}

\* Example 2 in units of 300: A 300, B 300, C -600 (A, B, C are rows 1, 2, 3)
Example2 == <<1, 1, -2>>

\* C7 as stated: 2 transactions, A pays C 300 and B pays C 300.
C7_AsStated ==
    (pc = "done" /\ data = Example2) =>
        /\ output.objective = 2
        /\ Transfers(output.payments) = {<<1, 3, 1>>, <<2, 3, 1>>}

\* C7: for Example 2 there are 2 transactions: C pays A 300 and C pays B 300.
C7_DebtorPays ==
    (pc = "done" /\ data = Example2) =>
        /\ output.objective = 2
        /\ Transfers(output.payments) = {<<3, 1, 1>>, <<3, 2, 1>>}

C7_Witness ==
    /\ pc = "done"
    /\ data = Example2
    /\ output.payments = {<<3, 1, -1>>, <<3, 2, -1>>}

\* ----- C8 -----
\* C8: on fewer than 2 rows or a non-zero sum the script stops with
\* InvalidInputError before it builds anything: no problem, no file, no solve.
C8_InvalidInputRejected ==
    ~ValidInput =>
        /\ ~prob.built
        /\ ~lp_file
        /\ ~search.done
        /\ pc # "done"
        /\ error \in {"none", "InvalidInputError"}

\* ----- C9 -----
\* the star centred at s: every other participant settles its whole balance
\* with s, the indicators of those pairs are 1, nothing else moves
Star(s) ==
    LET net == net_transactions
    IN [payout |-> [i \in name_combos |->
                        IF i[2] = s /\ net[i[1]] > 0 THEN net[i[1]]
                        ELSE IF i[1] = s /\ net[i[2]] < 0 THEN -net[i[2]]
                        ELSE 0],
        payment |-> [i \in name_combos |->
                        IF i[1] = s /\ net[i[2]] > 0 THEN -net[i[2]]
                        ELSE IF i[2] = s /\ net[i[1]] < 0 THEN net[i[1]]
                        ELSE 0],
        is_trans |-> [u \in name_combos_u |->
                        IF \/ u[1] = s /\ net[u[2]] # 0
                           \/ u[2] = s /\ net[u[1]] # 0
                        THEN 1 ELSE 0]]

StarExists ==
    \E s \in Range(names) :
        /\ Satisfies(prob, Star(s))
        /\ Objective(prob, Star(s)) <= Len(names) - 1

\* C9 as stated: for every valid input some star satisfies prob.
C9_AsStated == (pc = "write" /\ ValidInput) => StarExists

\* C9: for a valid input a star satisfies prob exactly when at most one
\* balance is positive or at most one is negative.
C9_StarIffOneSided ==
    (pc = "write" /\ ValidInput) =>
        (StarExists <=> (\/ Cardinality(Positive(data)) <= 1
                         \/ Cardinality(Negative(data)) <= 1))

C9_Witness ==
    /\ pc = "write"
    /\ data = <<-1, 2, 0, -1>>
    /\ Satisfies(prob, Star(2))
    /\ Objective(prob, Star(2)) = 2

\* ----- C10 -----
\* C10: for a zero-sum input, in every assignment that satisfies the bounds,
\* the Net_is_zero rows and the balance rows, no payout exceeds max_payout and
\* no payment is below -max_payment, so the forcing rows hold once every
\* indicator is 1.
C10_BigMValid ==
    (pc = "print" /\ Total(data) = 0) =>
        \A a \in search.relaxed :
            /\ \A i \in name_combos :
                    a.payout[i] <= max_payout /\ a.payment[i] >= -max_payment
            /\ LET ones == [payout |-> a.payout, payment |-> a.payment,
                            is_trans |-> [u \in name_combos_u |-> 1]]
               IN \A c \in Forcing(prob) : Holds(c, ones)

\* a payout that reaches max_payout while a payment stays above -max_payment
C10_Witness ==
    /\ pc = "print"
    /\ Total(data) = 0
    /\ Len(data) >= 3
    /\ max_payout > 0
    /\ \E a \in search.relaxed : \E i \in name_combos :
            a.payout[i] = max_payout /\ a.payment[<<i[2], i[1]>>] > -max_payment
====

